---- MODULE Spec2Model ----
(***************************************************************************)
(* A model of the status-display engine of src/agent.py (StatusDisplay),   *)
(* of its animation threads (StatusDisplay._spin) and of the session loop  *)
(* that drives it (ChatInterface.run with Agent.process_request), and of   *)
(* the process_request methods of src/example_agent.py (TaskAgent,         *)
(* StreamingAgent).                                                        *)
(*                                                                         *)
(* A caller thread's position is the sequence of statements it still has   *)
(* to execute (todo): calling a method puts the method's statements, in    *)
(* program order, in front of what follows the call.  One action models    *)
(* one statement that reads or writes shared state.                        *)
(*                                                                         *)
(* Messages are taken to fit in the 80 columns that _clear_line blanks, as *)
(* every message of the repository does, so a clear leaves an empty line.  *)
(* StatusMessage.timestamp (time.time()) is read by no code and is left    *)
(* out.  The only fault injected is a failing terminal write of the main   *)
(* thread's status calls in the session loop (WriteFail).                  *)
(***************************************************************************)
EXTENDS Integers, Sequences, FiniteSets, TLC

\* ------------------------------------------------------------------ bounds
MaxCalls == 3       \* engine calls the free caller makes (Spec, UpdatesSpec)
NumCallers == 2     \* caller threads of UpdatesSpec
MaxRequests == 1    \* requests processed (SessionSpec, AgentsSpec)
MaxTicks == 1       \* cadence sleeps one animation thread completes
MaxLiveCalls == 2   \* engine calls the caller makes (CallerFairSpec, FairSpec)

\* --------------------------------------------------------------- constants
None == 0           \* Python's None: no thread, lock not held
NoStatus == "None"  \* Python's None as the value of current_status (no
                    \* status message of the model is this string)
Main == -1          \* the main (caller) thread; animation threads are 1, 2, ..
Callers == {0 - k : k \in 1..NumCallers}

\* class StatusType(Enum): member name |-> value (the glyph printed)
StatusType ==
  [THINKING |-> "(thinking)", PROCESSING |-> "(gear)", SUCCESS |-> "(check)",
   ERROR |-> "(cross)", INFO |-> "(info)"]

\* the ten frames of the list `spinner` in _spin
spinner == <<"f0", "f1", "f2", "f3", "f4", "f5", "f6", "f7", "f8", "f9">>

\* inputs of the free caller
UpdateKinds == {"THINKING", "PROCESSING"}
Msgs == {"m"}
SpinMsgs == {"s"}

VARIABLES
  current_status,   \* StatusDisplay.current_status
  status_history,   \* StatusDisplay.status_history, a sequence of StatusMessage
  lock,             \* StatusDisplay._lock: the thread holding it, or None
  spinner_thread,   \* StatusDisplay._spinner_thread: a thread id, or None
  stop_flag,        \* StatusDisplay._stop_spinner
  anim,             \* the animation threads ever started, by thread id
  line,             \* the terminal's current line: the contents printed on it
                    \* since it was last blanked or begun
  sealed,           \* the line that the last line break ended
  lastWrite,        \* the last write to the terminal: who, and what
  todo,             \* per caller thread: the statements it still has to run
  ncalls,           \* engine calls made by the free callers so far
  returned,         \* update / complete / error calls that have returned
  follow,           \* whether the free caller's last call is a start_spinner
                    \* ("started") or the stop_spinner right after one
                    \* ("stopped"), with the length status_history had at
                    \* that start_spinner
  session           \* the session loop's own state (ChatInterface.run)

vars == <<current_status, status_history, lock, spinner_thread, stop_flag,
          anim, line, sealed, lastWrite, todo, ncalls, returned, follow,
          session>>

engineVars == <<current_status, status_history, lock, spinner_thread,
                stop_flag, anim, line, sealed, lastWrite>>

\* -------------------------------------------------------------- statements
\* One statement of a caller thread: what it does (step), its arguments (a, b)
\* and, on the last statement of an engine call made from outside the engine,
\* the name of the call that returns with it (ret).
Stmt(step, a, b) == [step |-> step, a |-> a, b |-> b, ret |-> ""]

Returning(stmts, name) == [stmts EXCEPT ![Len(stmts)].ret = name]

StatusMessage(type, message) == [type |-> type, message |-> message]

\* f"{status.type.value} {message}" and f"{spinner[i % len(spinner)]} {message}"
Render(glyph, message) == <<glyph, message>>

IsFrame(content) == \E k \in 1..Len(spinner) : content[1] = spinner[k]

\* update with the `with self._lock:` dropped
updateUnlocked(status_type, message) ==
  << Stmt("append", status_type, message),
     Stmt("clear", "", ""),
     Stmt("print", status_type, message),
     Stmt("assign", "", message) >>

\* StatusDisplay.update: the statements of the method body
update(status_type, message) ==
  << Stmt("acquire", "", ""),
     Stmt("append", status_type, message),
     Stmt("clear", "", ""),
     Stmt("print", status_type, message),
     Stmt("assign", "", message) >>

\* StatusDisplay.stop_spinner
stop_spinner ==
  << Stmt("test", "", ""),
     Stmt("signal", "", ""),
     Stmt("join", "", ""),
     Stmt("forget", "", "") >>

\* StatusDisplay.start_spinner
start_spinner(message) ==
  stop_spinner \o << Stmt("reset", "", ""), Stmt("spawn", "", message) >>

\* complete holding the lock from before its stop_spinner to its line break
completeLocked(message) ==
  << Stmt("acquire", "", "") >>
    \o stop_spinner \o updateUnlocked("SUCCESS", message)
    \o << Stmt("newline", "SUCCESS", message) >>

\* StatusDisplay.complete
complete(message) ==
  stop_spinner \o update("SUCCESS", message)
               \o << Stmt("newline", "SUCCESS", message) >>

\* StatusDisplay.error
error(message) ==
  stop_spinner \o update("ERROR", message)
               \o << Stmt("newline", "ERROR", message) >>

StatusOps == {"update", "complete", "error"}

\* the statements of one engine call made from outside the engine
EngineCall(op, a, b) ==
  Returning(CASE op = "update" -> update(a, b)
              [] op = "complete" -> complete(b)
              [] op = "error" -> error(b)
              [] op = "start_spinner" -> start_spinner(b)
              [] OTHER -> stop_spinner,
            op)

\* ------------------------------------------------------------ initial state
NoFollow == [st |-> "", h |-> 0]

EngineInit ==
  /\ current_status = NoStatus
  /\ status_history = <<>>
  /\ lock = None
  /\ spinner_thread = None
  /\ stop_flag = FALSE
  /\ anim = <<>>
  /\ line = <<>>
  /\ sealed = <<>>
  /\ lastWrite = [by |-> None, op |-> "none"]
  /\ ncalls = 0
  /\ returned = 0
  /\ follow = NoFollow

\* ChatInterface: running is self.running; served counts the requests handed
\* to process_request, blocks the result blocks printed, failed the requests
\* whose processing raised; last is how the latest request went ("" while it
\* is processed, "ok", "raised"); ended is how run() returned ("" while it
\* runs, "exit", "interrupt", "crash" when an exception left it); exited is
\* whether the process has exited; raw is the line the latest input() read;
\* wfail is whether a status write has failed; cut is whether an exception
\* left an update between its append and its assignment.
NoLine == <<"(nothing read)">>

NoSession == [running |-> TRUE, served |-> 0, blocks |-> 0, failed |-> 0,
              last |-> "", ended |-> "", exited |-> FALSE, raw |-> NoLine,
              wfail |-> FALSE, cut |-> FALSE]

Init ==
  /\ EngineInit
  /\ todo = [c \in Callers |-> <<>>]
  /\ session = NoSession

\* ------------------------------------------------------ caller statements
Cur(c) == Head(todo[c])

At(c, step) == todo[c] # <<>> /\ Cur(c).step = step

Alive(t) == t \in 1..Len(anim) /\ anim[t].pc # "done"

\* the statement returns from a status call made from outside the engine
Counted(c) == IF Cur(c).ret \in StatusOps THEN 1 ELSE 0

\* `with self._lock:` of update: blocks until the lock is free
Acquire(c) ==
  /\ At(c, "acquire")
  /\ lock = None
  /\ lock' = c
  /\ todo' = [todo EXCEPT ![c] = Tail(@)]
  /\ UNCHANGED <<current_status, status_history, spinner_thread, stop_flag,
                 anim, line, sealed, lastWrite, ncalls, returned, follow,
                 session>>

\* status = StatusMessage(...); self.status_history.append(status)
HistoryAppend(c) ==
  /\ At(c, "append")
  /\ status_history' =
       Append(status_history, StatusMessage(Cur(c).a, Cur(c).b))
  /\ todo' = [todo EXCEPT ![c] = Tail(@)]
  /\ UNCHANGED <<current_status, lock, spinner_thread, stop_flag, anim, line,
                 sealed, lastWrite, ncalls, returned, follow, session>>

\* self._clear_line(): carriage return, 80 blanks, carriage return
ClearLine(c) ==
  /\ At(c, "clear")
  /\ line' = <<>>
  /\ lastWrite' = [by |-> c, op |-> "clear"]
  /\ todo' = [todo EXCEPT ![c] = Tail(@)]
  /\ UNCHANGED <<current_status, status_history, lock, spinner_thread,
                 stop_flag, anim, sealed, ncalls, returned, follow, session>>

\* print(f"{status.type.value} {message}", end='', flush=True)
PrintStatus(c) ==
  /\ At(c, "print")
  /\ line' = Append(line, Render(StatusType[Cur(c).a], Cur(c).b))
  /\ lastWrite' = [by |-> c, op |-> "content"]
  /\ todo' = [todo EXCEPT ![c] = Tail(@)]
  /\ UNCHANGED <<current_status, status_history, lock, spinner_thread,
                 stop_flag, anim, sealed, ncalls, returned, follow, session>>

\* self.current_status = message, and the end of the `with` block
Assign(c) ==
  /\ At(c, "assign")
  /\ current_status' = Cur(c).b
  /\ lock' = IF lock = c THEN None ELSE lock
  /\ returned' = returned + Counted(c)
  /\ todo' = [todo EXCEPT ![c] = Tail(@)]
  /\ UNCHANGED <<status_history, spinner_thread, stop_flag, anim, line,
                 sealed, lastWrite, ncalls, follow, session>>

\* print() of complete and error: the line break that seals the line
Newline(c) ==
  /\ At(c, "newline")
  /\ sealed' = line
  /\ line' = <<>>
  /\ lastWrite' = [by |-> c, op |-> "newline"]
  /\ returned' = returned + Counted(c)
  /\ todo' = [todo EXCEPT ![c] = Tail(@)]
  /\ UNCHANGED <<current_status, status_history, lock, spinner_thread,
                 stop_flag, anim, ncalls, follow, session>>

\* stop_spinner without its `if self._spinner_thread:`
StopTestAlways(c) ==
  /\ At(c, "test")
  /\ todo' = [todo EXCEPT ![c] = Tail(@)]
  /\ UNCHANGED <<engineVars, ncalls, returned, follow, session>>

\* `if self._spinner_thread:` of stop_spinner; when it is None the three
\* statements of the body are skipped
StopTest(c) ==
  /\ At(c, "test")
  /\ todo' = [todo EXCEPT ![c] =
                IF spinner_thread # None THEN Tail(@)
                ELSE SubSeq(@, Len(stop_spinner) + 1, Len(@))]
  /\ UNCHANGED <<engineVars, ncalls, returned, follow, session>>

\* Whether the first cadence sleep of thread t is still to complete.
NoTick(t) == anim[t].i = 0

\* self._stop_spinner = True.  The thread signalled is remembered in anim
\* (sig), with whether the signal came before its first tick.
StopSignal(c) ==
  /\ At(c, "signal")
  /\ stop_flag' = TRUE
  /\ anim' = [t \in 1..Len(anim) |->
                IF t = spinner_thread /\ Alive(t)
                THEN [anim[t] EXCEPT !.sig = IF NoTick(t) THEN "early"
                                                 ELSE "late"]
                ELSE anim[t]]
  /\ todo' = [todo EXCEPT ![c] = Tail(@)]
  /\ UNCHANGED <<current_status, status_history, lock, spinner_thread, line,
                 sealed, lastWrite, ncalls, returned, follow, session>>

\* self._spinner_thread.join(timeout=0.5) returns because the thread exited
JoinExited(c) ==
  /\ At(c, "join")
  /\ ~Alive(spinner_thread)
  /\ todo' = [todo EXCEPT ![c] = Tail(@)]
  /\ UNCHANGED <<engineVars, ncalls, returned, follow, session>>

\* join() without a timeout: it does not return while the thread is alive
JoinUntimed(c) ==
  /\ At(c, "join")
  /\ Alive(spinner_thread)
  /\ FALSE
  /\ UNCHANGED vars

\* self._spinner_thread.join(timeout=0.5) returns because 500 ms elapsed
JoinTimeout(c) ==
  /\ At(c, "join")
  /\ Alive(spinner_thread)
  /\ todo' = [todo EXCEPT ![c] = Tail(@)]
  /\ UNCHANGED <<engineVars, ncalls, returned, follow, session>>

\* self._spinner_thread = None
StopForget(c) ==
  /\ At(c, "forget")
  /\ spinner_thread' = None
  /\ todo' = [todo EXCEPT ![c] = Tail(@)]
  /\ UNCHANGED <<current_status, status_history, lock, stop_flag, anim, line,
                 sealed, lastWrite, ncalls, returned, follow, session>>

\* self._stop_spinner = False
StartReset(c) ==
  /\ At(c, "reset")
  /\ stop_flag' = FALSE
  /\ todo' = [todo EXCEPT ![c] = Tail(@)]
  /\ UNCHANGED <<current_status, status_history, lock, spinner_thread, anim,
                 line, sealed, lastWrite, ncalls, returned, follow, session>>

\* a thread about to run _spin(message): i = 0, nothing drawn, not signalled
NewThread(message) ==
  [pc |-> "check", i |-> 0, message |-> message, drawn |-> 0, sig |-> "no"]

\* self._spinner_thread = threading.Thread(target=self._spin, ...); .start()
StartSpawn(c) ==
  /\ At(c, "spawn")
  /\ anim' = Append(anim, NewThread(Cur(c).b))
  /\ spinner_thread' = Len(anim) + 1
  /\ todo' = [todo EXCEPT ![c] = Tail(@)]
  /\ UNCHANGED <<current_status, status_history, lock, stop_flag, line,
                 sealed, lastWrite, ncalls, returned, follow, session>>

EngineStep(c) ==
  \/ Acquire(c)
  \/ HistoryAppend(c)
  \/ ClearLine(c)
  \/ PrintStatus(c)
  \/ Assign(c)
  \/ Newline(c)
  \/ StopTest(c)
  \/ StopSignal(c)
  \/ JoinExited(c)
  \/ JoinTimeout(c)
  \/ StopForget(c)
  \/ StartReset(c)
  \/ StartSpawn(c)

\* ------------------------------------------------------- animation thread
\* SpinCheck with the loop condition dropped (`while True:`)
SpinCheckDeaf(t) ==
  /\ Alive(t)
  /\ anim[t].pc = "check"
  /\ anim' = [anim EXCEPT ![t].pc = "acquire"]
  /\ UNCHANGED <<current_status, status_history, lock, spinner_thread,
                 stop_flag, line, sealed, lastWrite, todo, ncalls, returned,
                 follow, session>>

\* `while not self._stop_spinner:`
SpinCheck(t) ==
  /\ Alive(t)
  /\ anim[t].pc = "check"
  /\ anim' = [anim EXCEPT ![t].pc = IF stop_flag THEN "done" ELSE "acquire"]
  /\ UNCHANGED <<current_status, status_history, lock, spinner_thread,
                 stop_flag, line, sealed, lastWrite, todo, ncalls, returned,
                 follow, session>>

\* SpinAcquire with the `with self._lock:` of _spin dropped
SpinAcquireNoLock(t) ==
  /\ Alive(t)
  /\ anim[t].pc = "acquire"
  /\ anim' = [anim EXCEPT ![t].pc = "clear"]
  /\ UNCHANGED <<current_status, status_history, lock, spinner_thread,
                 stop_flag, line, sealed, lastWrite, todo, ncalls, returned,
                 follow, session>>

\* `with self._lock:` of _spin
SpinAcquire(t) ==
  /\ Alive(t)
  /\ anim[t].pc = "acquire"
  /\ lock = None
  /\ lock' = t
  /\ anim' = [anim EXCEPT ![t].pc = "clear"]
  /\ UNCHANGED <<current_status, status_history, spinner_thread, stop_flag,
                 line, sealed, lastWrite, todo, ncalls, returned, follow,
                 session>>

\* self._clear_line() of _spin
SpinClear(t) ==
  /\ Alive(t)
  /\ anim[t].pc = "clear"
  /\ line' = <<>>
  /\ lastWrite' = [by |-> t, op |-> "clear"]
  /\ anim' = [anim EXCEPT ![t].pc = "print"]
  /\ UNCHANGED <<current_status, status_history, lock, spinner_thread,
                 stop_flag, sealed, todo, ncalls, returned, follow, session>>

\* SpinPrint taking the spinner's message for the current status
SpinPrintAssigns(t) ==
  /\ Alive(t)
  /\ anim[t].pc = "print"
  /\ line' = Append(line, Render(spinner[(anim[t].i % Len(spinner)) + 1],
                                 anim[t].message))
  /\ current_status' = anim[t].message
  /\ lastWrite' = [by |-> t, op |-> "content"]
  /\ lock' = IF lock = t THEN None ELSE lock
  /\ anim' = [anim EXCEPT ![t].pc = "sleep",
                          ![t].drawn = @ + 1]
  /\ UNCHANGED <<status_history, spinner_thread, stop_flag, sealed, todo,
                 ncalls, returned, follow, session>>

\* SpinPrint recording each frame in status_history as well
SpinPrintRecorded(t) ==
  /\ Alive(t)
  /\ anim[t].pc = "print"
  /\ line' = Append(line, Render(spinner[(anim[t].i % Len(spinner)) + 1],
                                 anim[t].message))
  /\ status_history' =
       Append(status_history, StatusMessage("INFO", anim[t].message))
  /\ lastWrite' = [by |-> t, op |-> "content"]
  /\ lock' = IF lock = t THEN None ELSE lock
  /\ anim' = [anim EXCEPT ![t].pc = "sleep",
                          ![t].drawn = @ + 1]
  /\ UNCHANGED <<current_status, spinner_thread, stop_flag, sealed, todo,
                 ncalls, returned, follow, session>>

\* print(f"{spinner[i % len(spinner)]} {message}", ...) and the end of the
\* `with` block.  drawn counts the frames the thread has written.
SpinPrint(t) ==
  /\ Alive(t)
  /\ anim[t].pc = "print"
  /\ line' = Append(line, Render(spinner[(anim[t].i % Len(spinner)) + 1],
                                 anim[t].message))
  /\ lastWrite' = [by |-> t, op |-> "content"]
  /\ lock' = IF lock = t THEN None ELSE lock
  /\ anim' = [anim EXCEPT ![t].pc = "sleep",
                          ![t].drawn = @ + 1]
  /\ UNCHANGED <<current_status, status_history, spinner_thread, stop_flag,
                 sealed, todo, ncalls, returned, follow, session>>

\* time.sleep(0.1); i += 1.  A thread completes at most MaxTicks sleeps.
SpinSleep(t) ==
  /\ Alive(t)
  /\ anim[t].pc = "sleep"
  /\ anim[t].i < MaxTicks
  /\ anim' = [anim EXCEPT ![t].pc = "check", ![t].i = @ + 1]
  /\ UNCHANGED <<current_status, status_history, lock, spinner_thread,
                 stop_flag, line, sealed, lastWrite, todo, ncalls, returned,
                 follow, session>>

SpinStep(t) ==
  \/ SpinCheck(t)
  \/ SpinAcquire(t)
  \/ SpinClear(t)
  \/ SpinPrint(t)
  \/ SpinSleep(t)

\* ------------------------------------------------------- the free caller
\* A caller between two calls makes any engine call.
Call(c, op, a, b) ==
  /\ todo[c] = <<>>
  /\ ncalls < MaxCalls
  /\ todo' = [todo EXCEPT ![c] = EngineCall(op, a, b)]
  /\ ncalls' = ncalls + 1
  /\ follow' = CASE op = "start_spinner" ->
                      [st |-> "started", h |-> Len(status_history)]
                  [] op = "stop_spinner" /\ follow.st = "started" ->
                      [follow EXCEPT !.st = "stopped"]
                  [] op = "stop_spinner" /\ follow.st # "started" ->
                      [st |-> IF spinner_thread = None THEN "idle stop"
                                                       ELSE "stop",
                       h |-> Len(status_history)]
                  [] OTHER -> NoFollow
  /\ UNCHANGED <<engineVars, returned, session>>

CallAny(c) ==
  \/ \E k \in UpdateKinds, m \in Msgs : Call(c, "update", k, m)
  \/ \E m \in Msgs : Call(c, "complete", "", m)
  \/ \E m \in Msgs : Call(c, "error", "", m)
  \/ \E m \in SpinMsgs : Call(c, "start_spinner", "", m)
  \/ Call(c, "stop_spinner", "", "")

Next ==
  \/ CallAny(Main)
  \/ EngineStep(Main)
  \/ \E t \in 1..Len(anim) : SpinStep(t)

\* The engine driven by one caller thread making any sequence of calls, with
\* the animation threads it starts.
Spec == Init /\ [][Next]_vars

\* The same steps with the caller making at most MaxLiveCalls calls.
LiveNext ==
  \/ ncalls < MaxLiveCalls /\ CallAny(Main)
  \/ EngineStep(Main)
  \/ \E t \in 1..Len(anim) : SpinStep(t)

\* The engine with a caller thread that keeps running: whenever the caller
\* has a statement it can execute, it eventually executes one.  Nothing is
\* assumed of the animation threads, which may stall anywhere.  (Every
\* statement of the caller changes todo.)
CallerFairSpec == Init /\ [][LiveNext]_vars /\ WF_todo(EngineStep(Main))

\* The engine with fair scheduling: every thread that can execute its next
\* statement eventually does, and a thread that waits for the lock gets it
\* if the lock is free again and again.  (Every statement of the caller
\* changes todo, every statement of an animation thread changes anim.)
FairSpec ==
  /\ Init /\ [][LiveNext]_vars
  /\ WF_todo(EngineStep(Main))
  /\ SF_todo(Acquire(Main))
  /\ \A t \in 1..MaxLiveCalls :
       /\ WF_anim(t <= Len(anim) /\ SpinStep(t))
       /\ SF_anim(t <= Len(anim) /\ SpinAcquire(t))

\* ------------------------------------------------- concurrent update calls
UpdatesNext ==
  \E c \in Callers :
    \/ \E k \in UpdateKinds, m \in Msgs : Call(c, "update", k, m)
    \/ Acquire(c)
    \/ HistoryAppend(c)
    \/ ClearLine(c)
    \/ PrintStatus(c)
    \/ Assign(c)

\* Several caller threads that call update concurrently; no spinner is started.
UpdatesSpec == Init /\ [][UpdatesNext]_vars

\* --------------------------------------------------------- the session loop
\* the lines _get_user_input may read, as sequences of characters
Inputs ==
  { <<>>, <<" ">>, <<"q">>, <<" ", "Q", " ">>, <<"E", "x", "i", "t">>,
    <<"q", "u", "i", "t">>, <<"h", "i">>, <<" ", "q", "q">> }

IsSpace(ch) == ch \in {" ", "\t"}

RECURSIVE LStrip(_)
LStrip(str) ==
  IF str # <<>> /\ IsSpace(Head(str)) THEN LStrip(Tail(str)) ELSE str

RECURSIVE RStrip(_)
RStrip(str) ==
  IF str # <<>> /\ IsSpace(str[Len(str)])
  THEN RStrip(SubSeq(str, 1, Len(str) - 1))
  ELSE str

\* str.strip()
Strip(str) == RStrip(LStrip(str))

LowerOf ==
  [E |-> "e", X |-> "x", I |-> "i", T |-> "t", Q |-> "q", U |-> "u",
   H |-> "h", M |-> "m", L |-> "l", O |-> "o", K |-> "k"]

\* str.lower()
Lower(str) ==
  [k \in 1..Len(str) |->
     IF str[k] \in DOMAIN LowerOf THEN LowerOf[str[k]] ELSE str[k]]

\* ['exit', 'quit', 'q']
ExitWords == { <<"e", "x", "i", "t">>, <<"q", "u", "i", "t">>, <<"q">> }

\* _get_user_input without the strip
GetUserInputRaw(raw) == raw

\* _get_user_input: input("You> ").strip()
GetUserInput(raw) == Strip(raw)

\* Agent.process_request: its engine calls, with the simulated work
\* (time.sleep) between them
process_request ==
  EngineCall("update", "THINKING", "Analyzing request...")
    \o << Stmt("work", "", "") >>
    \o EngineCall("update", "PROCESSING", "Breaking down the task...")
    \o << Stmt("work", "", "") >>
    \o EngineCall("start_spinner", "", "Processing components")
    \o << Stmt("work", "", "") >>
    \o EngineCall("stop_spinner", "", "")
    \o EngineCall("update", "INFO", "Generating response...")
    \o << Stmt("work", "", "") >>
    \o EngineCall("complete", "", "Task completed successfully")

\* f"Error: {str(e)}"
ErrorText == "Error: e"

\* the body of the `while self.running:` loop after a request was read
Handle ==
  << Stmt("spacing", "", "") >> \o process_request
    \o << Stmt("display", "", ""), Stmt("input", "", "") >>

\* the `except Exception` clause of run, and the loop's next iteration
Handler == EngineCall("error", "", ErrorText) \o << Stmt("input", "", "") >>

SessionInit ==
  /\ EngineInit
  /\ todo = [c \in Callers |->
               IF c = Main
               THEN << Stmt("welcome", "", ""), Stmt("input", "", "") >>
               ELSE <<>>]
  /\ session = NoSession

\* the main thread is inside the `except Exception` clause
InHandler(c) ==
  /\ session.last = "raised"
  /\ todo[c] # <<>>
  /\ Cur(c).step # "input"

\* the main thread is inside the `try` block of run
InTry(c) ==
  /\ todo[c] # <<>>
  /\ Cur(c).step # "welcome"
  /\ ~InHandler(c)

\* self._display_welcome()
Welcome(c) ==
  /\ At(c, "welcome")
  /\ sealed' = line
  /\ line' = <<>>
  /\ lastWrite' = [by |-> c, op |-> "text"]
  /\ todo' = [todo EXCEPT ![c] = Tail(@)]
  /\ UNCHANGED <<current_status, status_history, lock, spinner_thread,
                 stop_flag, anim, ncalls, returned, follow, session>>

\* the request is an exit keyword: self.running = False; print("Goodbye!");
\* break
ReadExit(c) ==
  /\ At(c, "input")
  /\ \E raw \in Inputs :
       /\ Lower(GetUserInput(raw)) \in ExitWords
       /\ session' = [session EXCEPT !.running = FALSE, !.ended = "exit",
                                     !.raw = raw]
  /\ sealed' = line
  /\ line' = <<>>
  /\ lastWrite' = [by |-> c, op |-> "text"]
  /\ todo' = [todo EXCEPT ![c] = <<>>]
  /\ UNCHANGED <<current_status, status_history, lock, spinner_thread,
                 stop_flag, anim, ncalls, returned, follow>>

\* the request is empty: continue
ReadEmpty(c) ==
  /\ At(c, "input")
  /\ \E raw \in Inputs :
       /\ Lower(GetUserInput(raw)) \notin ExitWords
       /\ Strip(GetUserInput(raw)) = <<>>
       /\ session' = [session EXCEPT !.raw = raw]
  /\ UNCHANGED <<engineVars, todo, ncalls, returned, follow>>

\* the loop without its `continue` on an empty request: every line that is
\* not an exit keyword is processed
ReadRequestAny(c) ==
  /\ At(c, "input")
  /\ session.served < MaxRequests
  /\ \E raw \in Inputs :
       /\ Lower(GetUserInput(raw)) \notin ExitWords
       /\ session' = [session EXCEPT !.served = @ + 1, !.last = "",
                                     !.raw = raw]
  /\ todo' = [todo EXCEPT ![c] = Handle]
  /\ UNCHANGED <<engineVars, ncalls, returned, follow>>

\* any other request is processed
ReadRequest(c) ==
  /\ At(c, "input")
  /\ session.served < MaxRequests
  /\ \E raw \in Inputs :
       /\ Lower(GetUserInput(raw)) \notin ExitWords
       /\ Strip(GetUserInput(raw)) # <<>>
       /\ session' = [session EXCEPT !.served = @ + 1, !.last = "",
                                     !.raw = raw]
  /\ todo' = [todo EXCEPT ![c] = Handle]
  /\ UNCHANGED <<engineVars, ncalls, returned, follow>>

\* print() before process_request: a line break
Spacing(c) ==
  /\ At(c, "spacing")
  /\ sealed' = line
  /\ line' = <<>>
  /\ lastWrite' = [by |-> c, op |-> "newline"]
  /\ todo' = [todo EXCEPT ![c] = Tail(@)]
  /\ UNCHANGED <<current_status, status_history, lock, spinner_thread,
                 stop_flag, anim, ncalls, returned, follow, session>>

\* the processing between two status calls (time.sleep) goes through
Work(c) ==
  /\ At(c, "work")
  /\ todo' = [todo EXCEPT ![c] = Tail(@)]
  /\ UNCHANGED <<engineVars, ncalls, returned, follow, session>>

\* the processing between two status calls raises: run's `except Exception`
\* clause takes over
Raise(c) ==
  /\ At(c, "work")
  /\ session' = [session EXCEPT !.last = "raised", !.failed = @ + 1]
  /\ todo' = [todo EXCEPT ![c] = Handler]
  /\ UNCHANGED <<engineVars, ncalls, returned, follow>>

\* self.agent.display_result(result): the result block
Display(c) ==
  /\ At(c, "display")
  /\ session' = [session EXCEPT !.blocks = @ + 1, !.last = "ok"]
  /\ sealed' = line
  /\ line' = <<>>
  /\ lastWrite' = [by |-> c, op |-> "text"]
  /\ todo' = [todo EXCEPT ![c] = Tail(@)]
  /\ UNCHANGED <<current_status, status_history, lock, spinner_thread,
                 stop_flag, anim, ncalls, returned, follow>>

\* the thread has appended the entry of an update and not yet assigned
\* current_status
MidUpdate(c) == At(c, "clear") \/ At(c, "print") \/ At(c, "assign")

\* A status write of the main thread fails: the print of _clear_line, of the
\* status line or of the line break raises (OSError is an Exception).  The
\* `with self._lock:` block it leaves releases the lock.  Inside the `try`
\* block the `except Exception` clause takes over; inside that clause the
\* exception leaves run() and main(), which ends the main thread.
WriteFail(c) ==
  /\ At(c, "clear") \/ At(c, "print") \/ At(c, "newline")
  /\ lock' = IF lock = c THEN None ELSE lock
  /\ IF InHandler(c)
     THEN /\ session' = [session EXCEPT !.running = FALSE, !.ended = "crash",
                                        !.wfail = TRUE,
                                        !.cut = @ \/ MidUpdate(c)]
          /\ todo' = [todo EXCEPT ![c] = <<>>]
     ELSE /\ session' = [session EXCEPT !.last = "raised", !.failed = @ + 1,
                                        !.wfail = TRUE,
                                        !.cut = @ \/ MidUpdate(c)]
          /\ todo' = [todo EXCEPT ![c] = Handler]
  /\ UNCHANGED <<current_status, status_history, spinner_thread, stop_flag,
                 anim, line, sealed, lastWrite, ncalls, returned, follow>>

\* KeyboardInterrupt anywhere in the `try` block: a `with self._lock:` block
\* it leaves releases the lock; the `except KeyboardInterrupt` clause prints
\* and sets self.running = False, which ends the loop
Interrupt(c) ==
  /\ InTry(c)
  /\ session' = [session EXCEPT !.running = FALSE, !.ended = "interrupt",
                                !.cut = @ \/ MidUpdate(c)]
  /\ lock' = IF lock = c THEN None ELSE lock
  /\ sealed' = line
  /\ line' = <<>>
  /\ lastWrite' = [by |-> c, op |-> "text"]
  /\ todo' = [todo EXCEPT ![c] = <<>>]
  /\ UNCHANGED <<current_status, status_history, spinner_thread, stop_flag,
                 anim, ncalls, returned, follow>>

\* main() returns once run() has, or the exception that left it ends the
\* main thread; the interpreter then waits for every non-daemon thread (the
\* animation threads are non-daemon) and exits
ProcessExit ==
  /\ session.ended # ""
  /\ ~session.exited
  /\ \A t \in 1..Len(anim) : ~Alive(t)
  /\ session' = [session EXCEPT !.exited = TRUE]
  /\ UNCHANGED <<engineVars, todo, ncalls, returned, follow>>

SessionStep(c) ==
  \/ Welcome(c)
  \/ ReadExit(c)
  \/ ReadEmpty(c)
  \/ ReadRequest(c)
  \/ Spacing(c)
  \/ Work(c)
  \/ Raise(c)
  \/ Display(c)
  \/ WriteFail(c)
  \/ Interrupt(c)

SessionNext ==
  \/ SessionStep(Main)
  \/ EngineStep(Main)
  \/ \E t \in 1..Len(anim) : SpinStep(t)
  \/ ProcessExit

\* ChatInterface.run on the main thread, with the animation threads
SessionSpec == SessionInit /\ [][SessionNext]_vars

\* ------------------------------------------------------ the example agents
\* time.sleep between two status calls
Pause == << Stmt("work", "", "") >>

\* `word in request_lower`: word is a substring of str
Contains(str, word) ==
  \E k \in 1..(Len(str) - Len(word) + 1) :
    SubSeq(str, k, k + Len(word) - 1) = word

\* any(word in request_lower for word in words)
ContainsAny(str, words) == \E word \in words : Contains(str, word)

CalculationWords ==
  { <<"c", "a", "l", "c", "u", "l", "a", "t", "e">>,
    <<"c", "o", "m", "p", "u", "t", "e">>,
    <<"m", "a", "t", "h">> }

SearchWords ==
  { <<"s", "e", "a", "r", "c", "h">>,
    <<"f", "i", "n", "d">>,
    <<"l", "o", "o", "k">> }

AnalysisWords ==
  { <<"a", "n", "a", "l", "y", "z", "e">>,
    <<"r", "e", "v", "i", "e", "w">>,
    <<"c", "h", "e", "c", "k">> }

\* TaskAgent._handle_calculation
handle_calculation ==
  EngineCall("update", "PROCESSING", "Parsing mathematical expression...")
    \o Pause
    \o EngineCall("update", "PROCESSING", "Computing result...")
    \o Pause
    \o EngineCall("complete", "", "Calculation complete")

\* TaskAgent._handle_search
handle_search ==
  EngineCall("start_spinner", "", "Searching database")
    \o Pause
    \o EngineCall("stop_spinner", "", "")
    \o EngineCall("update", "PROCESSING", "Ranking results...")
    \o Pause
    \o EngineCall("update", "INFO", "Formatting output...")
    \o Pause
    \o EngineCall("complete", "", "Search complete")

AnalysisSteps ==
  << "Loading data...", "Preprocessing input...",
     "Running analysis algorithms...", "Validating results...",
     "Generating insights..." >>

\* for step in steps: update(PROCESSING, step); time.sleep(0.6)
RECURSIVE StepUpdates(_)
StepUpdates(steps) ==
  IF steps = <<>> THEN <<>>
  ELSE EngineCall("update", "PROCESSING", Head(steps)) \o Pause
         \o StepUpdates(Tail(steps))

\* TaskAgent._handle_analysis
handle_analysis ==
  StepUpdates(AnalysisSteps) \o EngineCall("complete", "", "Analysis complete")

\* TaskAgent._handle_general
handle_general ==
  EngineCall("update", "THINKING", "Understanding request...")
    \o Pause
    \o EngineCall("start_spinner", "", "Processing request")
    \o Pause
    \o EngineCall("stop_spinner", "", "")
    \o EngineCall("complete", "", "Request processed")

\* TaskAgent.process_request
TaskAgent_process_request(request) ==
  EngineCall("update", "THINKING", "Analyzing request type...")
    \o Pause
    \o (IF ContainsAny(Lower(request), CalculationWords)
          THEN handle_calculation
        ELSE IF ContainsAny(Lower(request), SearchWords) THEN handle_search
        ELSE IF ContainsAny(Lower(request), AnalysisWords)
          THEN handle_analysis
        ELSE handle_general)

\* len(request.split()): the maximal runs of characters that are not spaces
NumTokens(str) ==
  Cardinality({k \in 1..Len(str) :
                 ~IsSpace(str[k]) /\ (k = 1 \/ IsSpace(str[k - 1]))})

\* f"Processing {i}/{len(tokens)} tokens..."
TokensText(i, n) ==
  "Processing " \o ToString(i) \o "/" \o ToString(n) \o " tokens..."

\* for i, token in enumerate(tokens, 1): time.sleep(0.2); update(...)
RECURSIVE TokenUpdates(_, _)
TokenUpdates(i, n) ==
  IF i > n THEN <<>>
  ELSE Pause \o EngineCall("update", "PROCESSING", TokensText(i, n))
         \o TokenUpdates(i + 1, n)

\* StreamingAgent.process_request
StreamingAgent_process_request(request) ==
  EngineCall("update", "THINKING", "Preparing response stream...")
    \o Pause
    \o EngineCall("update", "PROCESSING",
                  TokensText(0, NumTokens(request)))
    \o TokenUpdates(1, NumTokens(request))
    \o EngineCall("complete", "", "Stream complete")

\* the requests handed to TaskAgent: one that names a calculation, one that
\* names a calculation and a search, a search, an analysis, none of them
TaskRequests ==
  { <<"M", "a", "t", "h">>,
    <<"f", "i", "n", "d", " ", "m", "a", "t", "h">>,
    <<"L", "O", "O", "K">>, <<"c", "h", "e", "c", "k", " ", "i", "t">>,
    <<"h", "i">> }

\* the requests handed to StreamingAgent: no token, one, two
StreamRequests ==
  { <<>>, <<"h", "i">>, <<" ", "a", " ", " ", "b", " ">> }

\* every process_request path of the three agents
Paths ==
  {process_request}
    \cup {TaskAgent_process_request(r) : r \in TaskRequests}
    \cup {StreamingAgent_process_request(r) : r \in StreamRequests}

\* a caller hands a request to one of the agents
StartRequest(c) ==
  /\ todo[c] = <<>>
  /\ session.served < MaxRequests
  /\ \E path \in Paths : todo' = [todo EXCEPT ![c] = path]
  /\ session' = [session EXCEPT !.served = @ + 1]
  /\ UNCHANGED <<engineVars, ncalls, returned, follow>>

AgentsNext ==
  \/ StartRequest(Main)
  \/ Work(Main)
  \/ EngineStep(Main)
  \/ \E t \in 1..Len(anim) : SpinStep(t)

\* process_request of Agent, TaskAgent or StreamingAgent called on the main
\* thread, with the animation threads it starts
AgentsSpec == Init /\ [][AgentsNext]_vars

\* ------------------------------------------------------------------ claims
AnimThreads == 1..Len(anim)

AliveThreads == {t \in AnimThreads : Alive(t)}

Idle(c) == todo[c] = <<>>

\* The threads that have blanked the line and not yet written their content.
MidRender ==
  {c \in Callers : At(c, "print")} \cup
  {t \in AnimThreads : anim[t].pc = "print"}

\* C1: a status render of update and a frame render of _spin never interleave:
\* at most one thread is between its line clear and its content write, that
\* thread writes onto the line it blanked, and the line never holds the
\* contents of two writes.
C1_RendersNeverInterleave ==
  /\ Cardinality(MidRender) <= 1
  /\ \A x \in MidRender : line = <<>> => lastWrite.op \in {"clear", "newline"}
  /\ \A x \in MidRender : lastWrite.op = "clear" => lastWrite.by = x
  /\ Len(line) <= 1

\* C1's case: the caller is inside its render while a running animation thread
\* waits for the lock.
C1_Witness ==
  /\ At(Main, "print")
  /\ \E t \in AnimThreads : anim[t].pc = "acquire"

\* C2: whenever update renders while a spinner is active, the spinner's
\* animation thread has already exited.
C2_UpdateStopsSpinner ==
  \A c \in Callers :
    (At(c, "clear") \/ At(c, "print")) /\ spinner_thread # None
      => ~Alive(spinner_thread)

\* C3: at most one animation thread is alive at any time.
C3_AtMostOneAnimationThread == Cardinality(AliveThreads) <= 1

\* C4: an animation thread that stop_spinner has signalled leaves the loop at
\* its next check of the stop flag; it never goes on to draw another frame.
C4_SignalledThreadExits ==
  [][\A t \in AnimThreads :
       anim[t].sig # "no" /\ anim[t].pc = "check"
         => anim'[t].pc \in {"check", "done"}]_vars

\* C5: when complete or error writes its line break, the last write to the
\* terminal is its own Success or Error line and that line is what the break
\* seals: nothing is written between the two.
C5_LineBreakFollowsStatusLine ==
  \A c \in Callers :
    At(c, "newline")
      => /\ lastWrite = [by |-> c, op |-> "content"]
         /\ line = <<Render(StatusType[Cur(c).a], Cur(c).b)>>

\* C6: status_history holds one entry per update, complete or error call: as
\* many as have returned when no call is in progress, at most one more while
\* one is; every step leaves it alone or appends one entry, and only a status
\* call's append statement appends.
C6_HistoryCountsStatusCalls ==
  /\ [](/\ Idle(Main) => Len(status_history) = returned
        /\ returned <= Len(status_history)
        /\ Len(status_history) <= returned + 1)
  /\ [][\/ status_history' = status_history
        \/ /\ At(Main, "append")
           /\ Len(status_history') = Len(status_history) + 1
           /\ SubSeq(status_history', 1, Len(status_history)) = status_history
       ]_vars

\* C6's case: status calls have returned and spinner frames were drawn.
C6_Witness ==
  /\ Idle(Main)
  /\ returned >= 1
  /\ \E t \in AnimThreads : anim[t].drawn >= 1

Last(seq) == seq[Len(seq)]

\* C7: with update calls only, from several caller threads: the entries are
\* appended and rendered in the order the calls pass the lock.  The call
\* holding the lock appends entry number returned + 1 (returned counts the
\* calls that have left the lock), that entry is its own, and once it has
\* printed, and whenever the lock is free, the line shows the rendering of
\* the last entry.
C7_LineShowsLastEntry ==
  /\ lock = None
       => /\ Len(status_history) = returned
          /\ status_history = <<>> => line = <<>> /\ current_status = NoStatus
          /\ status_history # <<>>
               => /\ line = <<Render(StatusType[Last(status_history).type],
                                     Last(status_history).message)>>
                  /\ current_status = Last(status_history).message
  /\ \A c \in Callers :
       /\ At(c, "append") => Len(status_history) = returned
       /\ At(c, "clear") \/ At(c, "print") \/ At(c, "assign")
            => /\ Len(status_history) = returned + 1
               /\ Last(status_history).message = Last(todo[c]).b
       /\ At(c, "print")
            => Last(status_history) = StatusMessage(Cur(c).a, Cur(c).b)
       /\ At(c, "assign")
            => line = <<Render(StatusType[Last(status_history).type],
                               Last(status_history).message)>>

\* C7's case: one caller has rendered the second entry, which differs from
\* the first, while another caller waits for the lock.
C7_Witness ==
  \E c1, c2 \in Callers :
    /\ c1 # c2
    /\ At(c1, "assign")
    /\ At(c2, "acquire")
    /\ Len(status_history) = 2
    /\ status_history[1] # status_history[2]

\* The animation thread of the caller's latest start_spinner, when the call
\* after it is a stop_spinner that signalled it before its first tick.
QuickSession(t) ==
  /\ follow.st = "stopped"
  /\ t = Len(anim)
  /\ t >= 1
  /\ anim[t].sig = "early"

\* C8 as stated: start_spinner followed at once by stop_spinner, no tick
\* elapsed, changes no history and writes no spinner frame.
C8_NoFrameWithoutTick ==
  \A t \in AnimThreads :
    QuickSession(t)
      => /\ Len(status_history) = follow.h
         /\ anim[t].drawn = 0

\* C8 amended: start_spinner followed at once by stop_spinner, no tick
\* elapsed, changes no history, and until the caller's next engine call the
\* session's thread writes at most one frame, the first of the cycle.
C8_AtMostFirstFrame ==
  \A t \in AnimThreads :
    QuickSession(t)
      => /\ Len(status_history) = follow.h
         /\ anim[t].drawn <= 1
         /\ anim[t].i \in {0, 1}
         /\ lastWrite = [by |-> t, op |-> "content"]
              => line = <<Render(spinner[1], anim[t].message)>>

\* C8's case: the stop_spinner has returned, the thread has exited, and it
\* drew its first frame before it saw the flag.
C8_Witness ==
  \E t \in AnimThreads :
    /\ QuickSession(t)
    /\ Idle(Main)
    /\ anim[t].pc = "done"
    /\ anim[t].drawn = 1
    /\ line = <<Render(spinner[1], anim[t].message)>>

\* C9: once the session loop has ended, by an exit keyword or by an
\* interrupt, no animation thread is left running its loop: a thread still
\* alive has been told to stop (nothing raises the flag afterwards, and the
\* interpreter waits for every thread before the process exits).
C9_NoThreadLeftRunning ==
  session.ended \in {"exit", "interrupt"} => (AliveThreads = {} \/ stop_flag)

\* C10: when processing raised, the loop is back at the prompt with the
\* error reported: the spinner torn down, the Error entry last in the
\* history, the Error line sealed by the line break with nothing drawn after
\* it, and no result block printed for the request.
C10_RaiseReportedAsSealedError ==
  (At(Main, "input") /\ session.last = "raised")
    => /\ spinner_thread = None
       /\ status_history # <<>>
       /\ Last(status_history) = StatusMessage("ERROR", ErrorText)
       /\ sealed = <<Render(StatusType.ERROR, ErrorText)>>
       /\ line = <<>>
       /\ session.blocks + session.failed = session.served

\* C11: a status write that fails while a request is processed ends the
\* session loop: once a write has failed, the main thread is never at the
\* prompt again.
C11_WriteFailureEndsLoop == session.wfail => ~At(Main, "input")

\* the lines of Inputs that are empty once trimmed
BlankLines == { <<>>, <<" ">> }

\* the main thread reads a line at the prompt (a step that reads the line
\* read before changes nothing the claims speak of)
ReadsLine == At(Main, "input") /\ session'.raw # session.raw

\* C13: reading a line that is empty once trimmed leaves the main thread at
\* the prompt and changes nothing but the line read: no engine statement is
\* queued, status_history, current_status and the spinner's state are
\* unchanged and nothing is written to the terminal.
C13_EmptyLineOnlyReprompts ==
  [][ReadsLine /\ session'.raw \in BlankLines
       => /\ todo' = todo
          /\ session' = [session EXCEPT !.raw = session'.raw]
          /\ UNCHANGED <<engineVars, ncalls, returned>>]_vars

\* C13's case: a blank line was read after a request had been processed, and
\* the main thread is at the prompt again.
C13_Witness ==
  /\ At(Main, "input")
  /\ session.raw = <<" ">>
  /\ session.served >= 1
  /\ status_history # <<>>

\* the lines of Inputs that are exit, quit or q in some letter case once
\* trimmed
ExitLines ==
  { <<"q">>, <<" ", "Q", " ">>, <<"E", "x", "i", "t">>,
    <<"q", "u", "i", "t">> }

\* C14: reading an exit keyword prints the farewell and ends the loop without
\* a processing or engine statement; once the loop has ended that way the
\* main thread has nothing left to run and reads no further line.
C14_ExitKeywordEndsLoop ==
  /\ [][ReadsLine /\ session'.raw \in ExitLines
          => /\ todo'[Main] = <<>>
             /\ session' = [session EXCEPT !.raw = session'.raw,
                                           !.running = FALSE,
                                           !.ended = "exit"]
             /\ lastWrite' = [by |-> Main, op |-> "text"]
             /\ UNCHANGED <<current_status, status_history, lock,
                            spinner_thread, stop_flag, anim, ncalls,
                            returned>>]_vars
  /\ [](session.ended = "exit" => todo[Main] = <<>>)
  /\ [][session.ended = "exit"
          => /\ session'.raw = session.raw
             /\ session'.served = session.served
             /\ UNCHANGED <<status_history, current_status, todo>>]_vars

\* C14's case: the loop has ended on the line " Q " after it had processed a
\* request.
C14_Witness ==
  /\ session.ended = "exit"
  /\ session.raw = <<" ", "Q", " ">>
  /\ session.served >= 1
  /\ status_history # <<>>

\* the caller is inside the body of stop_spinner
InStopSpinner(c) ==
  At(c, "test") \/ At(c, "signal") \/ At(c, "join") \/ At(c, "forget")

\* C12: a caller inside stop_spinner always leaves it, whatever the animation
\* threads do, even one that never takes another step.
C12_StopSpinnerReturns == InStopSpinner(Main) ~> ~InStopSpinner(Main)

\* C12's case: stop_spinner has returned while the thread it was to stop is
\* still alive (the join timed out).
C12_Witness ==
  /\ Idle(Main)
  /\ follow.st = "stopped"
  /\ Alive(Len(anim))
  /\ anim[Len(anim)].sig # "no"

\* the caller's latest call was a stop_spinner, which has returned, and the
\* caller has made no call since
AfterStop == Idle(Main) /\ follow.st \in {"stopped", "stop", "idle stop"}

\* C15: no statement of stop_spinner writes to the terminal, and from its
\* return to the caller's next call the status line stays as it is: nobody
\* writes to the terminal.
C15_LineKeptAfterStop ==
  /\ [][InStopSpinner(Main) /\ todo' # todo
          => line' = line /\ sealed' = sealed /\ lastWrite' = lastWrite]_vars
  /\ [][AfterStop => line' = line /\ lastWrite' = lastWrite]_vars

\* C16: stop_spinner with no spinner registered (self._spinner_thread is None)
\* is one test that falls through: the caller is past the body of
\* stop_spinner, and status_history, current_status, the stop flag, the
\* thread reference, the lock, the threads and the terminal are unchanged.
C16_IdleStopIsNoOp ==
  [][At(Main, "test") /\ spinner_thread = None /\ todo' # todo
       => /\ todo'[Main] = SubSeq(todo[Main], Len(stop_spinner) + 1,
                                  Len(todo[Main]))
          /\ UNCHANGED <<status_history, current_status, stop_flag,
                         spinner_thread, lock, anim, line, sealed,
                         lastWrite>>]_vars

\* C16's case: a stop_spinner called after the spinner had been started and
\* stopped has returned.
C16_Witness ==
  /\ Idle(Main)
  /\ follow.st = "idle stop"
  /\ Len(anim) >= 1
  /\ stop_flag

\* the entries of status_history that complete and error appended
Terminals ==
  {k \in 1..Len(status_history) :
     status_history[k].type \in {"SUCCESS", "ERROR"}}

SuccessText == "Task completed successfully"

\* C17: with no write failure, a processed request ends with one sealed
\* line.  When processing returned, the result block is printed right after
\* the sealed Success line; back at the prompt every request served has one
\* Success or Error entry and either a result block or an Error line, and a
\* request whose processing raised left the Error line sealed.
C17_RequestEndsWithOneSealedLine ==
  /\ At(Main, "display") /\ ~session.wfail
       => /\ sealed = <<Render(StatusType.SUCCESS, SuccessText)>>
          /\ line = <<>>
          /\ Last(status_history) = StatusMessage("SUCCESS", SuccessText)
  /\ At(Main, "input") /\ session.served >= 1 /\ ~session.wfail
       => /\ Cardinality(Terminals) = session.served
          /\ session.blocks + session.failed = session.served
          /\ session.last = "ok"
               => Last(status_history) = StatusMessage("SUCCESS", SuccessText)
          /\ session.last = "raised"
               => /\ Last(status_history) = StatusMessage("ERROR", ErrorText)
                  /\ sealed = <<Render(StatusType.ERROR, ErrorText)>>

\* the statements of a path that return from an engine call, in order
Rets(path) == SelectSeq(path, LAMBDA st : st.ret # "")

\* the first entry a path appends to status_history
FirstAppend(path) == Head(SelectSeq(path, LAMBDA st : st.step = "append"))

\* a path starts with a Thinking update, calls complete once, as its last
\* call, and follows every start_spinner by a stop_spinner
WellFormed(path) ==
  /\ Rets(path) # <<>>
  /\ Rets(path)[1].ret = "update"
  /\ FirstAppend(path).a = "THINKING"
  /\ Last(Rets(path)).ret = "complete"
  /\ Cardinality({k \in 1..Len(Rets(path)) :
                    Rets(path)[k].ret = "complete"}) = 1
  /\ \A k \in 1..Len(Rets(path)) :
       Rets(path)[k].ret = "start_spinner"
         => k < Len(Rets(path)) /\ Rets(path)[k + 1].ret = "stop_spinner"

\* C18: every process_request path is well formed; no update renders while a
\* spinner is registered; and once process_request has returned, no animation
\* thread is alive.
C18_PathsStopTheirSpinners ==
  /\ \A path \in Paths : WellFormed(path)
  /\ MidUpdate(Main) \/ At(Main, "append") => spinner_thread = None
  /\ Idle(Main) /\ session.served >= 1 => AliveThreads = {}

\* current_status is None while status_history is empty and the message of
\* its last entry afterwards
StatusIsLastEntry ==
  IF status_history = <<>> THEN current_status = NoStatus
  ELSE current_status = Last(status_history).message

\* only the assignment at the end of update changes current_status, to the
\* message of that update
OnlyUpdateAssigns ==
  [][current_status' # current_status
       => At(Main, "assign") /\ current_status' = Cur(Main).b]_vars

HeldInsideBlock ==
  /\ lock = Main
       => \/ At(Main, "append") \/ At(Main, "clear")
          \/ At(Main, "print") \/ At(Main, "assign")
  /\ \A t \in AnimThreads : lock = t => anim[t].pc \in {"clear", "print"}

\* C20: the lock is never held by a thread that sleeps between frames or
\* waits in the join; with fair scheduling every engine call returns and
\* every animation thread that waits for the lock gets it.
C20_EngineDeadlockFree ==
  /\ []HeldInsideBlock
  /\ ~Idle(Main) ~> Idle(Main)
  /\ \A t \in 1..MaxLiveCalls :
       (t <= Len(anim) /\ anim[t].pc = "acquire") ~> (lock = t)

\* C20's case: the caller waits for the lock in update while a running
\* animation thread holds it for a frame.
C20_Witness ==
  /\ At(Main, "acquire")
  /\ \E t \in AnimThreads : lock = t /\ anim[t].pc = "print"

====
